---- MODULE Spec2Model ----
(***************************************************************************)
(* Model of bandit.py: a Bernoulli bandit environment (class Bandits) and  *)
(* the Thompson-sampling simulation script that drives it.                 *)
(*                                                                         *)
(* Reals are modelled in fixed point.  A hidden probability is k/ProbLevels*)
(* with k in 0..ProbLevels-1 (random_sample draws from [0,1)), a regret is *)
(* a difference of two such numerators, and a Beta sample is one of        *)
(* DrawLevels ordered levels (every Beta(a,b) has the whole of (0,1) as    *)
(* its support, so any level can be drawn for any arm).  Arrays are        *)
(* functions on 0..n-1, as numpy indexes them.                             *)
(*                                                                         *)
(* Spec is the whole script, one action per pass through the loop body;    *)
(* the samples of a pass are local to the action there.  SpecSelect keeps  *)
(* them in current_draws and repeats the sampling and selection step of    *)
(* the loop body, and SpecApi calls the methods of a constructed Bandits   *)
(* object with arbitrary arguments.                                        *)
(***************************************************************************)
EXTENDS Integers, FiniteSets, Sequences, TLC

MaxArms == 3
MaxTrials == 2
ProbLevels == 2
DrawLevels == 2

VARIABLES
  pc,               \* position of the script
  argv,             \* <<sys.argv[1], sys.argv[2]>> already converted by int()
  bandit_count,     \* script global
  trial_count,      \* script global
  bandits,          \* Bandits.bandits
  max_prob,         \* Bandits.max_prob
  banditStats,      \* per-arm [wins, losses]
  overallStats,     \* per-round [bandit, wins, losses, regret]
  iteration,        \* index of the next round of the for loop
  current_draws,    \* script global, samples of the last selection step
  selected_bandit,  \* script global, arm of the last round
  called,           \* last method called directly on the Bandits object
  number,           \* its argument
  select_ret,       \* outcome of the last direct Bandits.select call
  regret_ret        \* outcome of the last direct Bandits.regret call

vars == <<pc, argv, bandit_count, trial_count, bandits, max_prob, banditStats,
          overallStats, iteration, current_draws, selected_bandit,
          called, number, select_ret, regret_ret>>

scriptVars == <<argv, bandit_count, trial_count, bandits, max_prob, banditStats,
                overallStats, iteration, current_draws, selected_bandit>>

apiVars == <<called, number, select_ret, regret_ret>>

----------------------------------------------------------------------------
(* numpy helpers *)

\* outcome of a call: a returned value or a raised exception
Ret(v) == [exc |-> "none", val |-> v]

Raise(e, v) == [exc |-> e, val |-> v]

\* a[n] on an array of the given size is defined for -size <= n < size
InBounds(n, size) == (0 - size) <= n /\ n < size

\* negative indices count from the end
Wrap(n, size) == IF n < 0 THEN n + size ELSE n

\* np.zeros((n,), dtype=[('wins', int), ('losses', int)])
ZeroBanditStats(n) == [a \in 0..(n - 1) |-> [wins |-> 0, losses |-> 0]]

\* np.zeros((n,), dtype=[('bandit', int), ('wins', int), ('losses', int), ('regret', float)])
ZeroOverallStats(n) ==
  [i \in 0..(n - 1) |-> [bandit |-> 0, wins |-> 0, losses |-> 0, regret |-> 0]]

\* np.amax: scan keeping the largest value seen
RECURSIVE amaxFrom(_, _, _)
amaxFrom(a, i, best) ==
  IF i \notin DOMAIN a THEN best
  ELSE amaxFrom(a, i + 1, IF a[i] > best THEN a[i] ELSE best)

amax(a) == amaxFrom(a, 1, a[0])

\* ndarray.argmax: scan keeping the index of the first largest value
RECURSIVE argmaxFrom(_, _, _)
argmaxFrom(a, i, best) ==
  IF i \notin DOMAIN a THEN best
  ELSE argmaxFrom(a, i + 1, IF a[i] > a[best] THEN i ELSE best)

\* variant: a later equal value replaces the remembered one
RECURSIVE argmaxLastFrom(_, _, _)
argmaxLastFrom(a, i, best) ==
  IF i \notin DOMAIN a THEN best
  ELSE argmaxLastFrom(a, i + 1, IF a[i] >= a[best] THEN i ELSE best)

argmax_LastMaximum(a) == argmaxLastFrom(a, 1, 0)

\* variant: the position is reported counting from 1
argmax_OneBased(a) == argmaxFrom(a, 1, 0) + 1

argmax(a) == argmaxFrom(a, 1, 0)

----------------------------------------------------------------------------
(* class Bandits *)

\* variant: a single arm is accepted
SizeInvalid_AllowsOne(size) == size < 1

\* the guard of __init__
SizeInvalid(size) == size < 2

\* np.random.binomial(1, p) == 1: never with p = 0, always with p = 1,
\* either way (coin) in between
binomial(p, coin) ==
  IF p = 0 THEN FALSE ELSE IF p = ProbLevels THEN TRUE ELSE coin

\* variant: the upper bound test of regret used in select
select_UpperInclusive(num, coin) ==
  IF (num < 0) \/ (num > Cardinality(DOMAIN bandits)) THEN Ret(FALSE)
  ELSE IF ~InBounds(num, Cardinality(DOMAIN bandits)) THEN Raise("IndexError", FALSE)
  ELSE Ret(binomial(bandits[Wrap(num, Cardinality(DOMAIN bandits))], coin))

\* select(self, number)
select(num, coin) ==
  IF (num < 0) \/ (num >= Cardinality(DOMAIN bandits)) THEN Ret(FALSE)
  ELSE IF ~InBounds(num, Cardinality(DOMAIN bandits)) THEN Raise("IndexError", FALSE)
  ELSE Ret(binomial(bandits[Wrap(num, Cardinality(DOMAIN bandits))], coin))

\* variant: the difference taken the other way round
regret_Swapped(num) ==
  IF (num < 0) \/ (num > Cardinality(DOMAIN bandits)) THEN Ret(max_prob)
  ELSE IF ~InBounds(num, Cardinality(DOMAIN bandits)) THEN Raise("IndexError", 0)
  ELSE Ret(bandits[Wrap(num, Cardinality(DOMAIN bandits))] - max_prob)

\* regret(self, number)
regret(num) ==
  IF (num < 0) \/ (num > Cardinality(DOMAIN bandits)) THEN Ret(max_prob)
  ELSE IF ~InBounds(num, Cardinality(DOMAIN bandits)) THEN Raise("IndexError", 0)
  ELSE Ret(max_prob - bandits[Wrap(num, Cardinality(DOMAIN bandits))])

----------------------------------------------------------------------------
(* the script *)

\* variant: zero is let through
CoerceTrialCount_AllowsZero(n) == IF n < 0 THEN 1 ELSE n

\* if trial_count < 1: trial_count = 1
CoerceTrialCount(n) == IF n < 1 THEN 1 ELSE n

\* the vectorised draw_bandit_distribution: one Beta sample per arm
draw_bandit_distribution(stats) == [DOMAIN stats -> 1..DrawLevels]

\* variant: the previous record is not carried over
CopyPrevious_NoCopy(stats, it) == stats

\* if (iteration != 0): overallStats[iteration] = overallStats[iteration - 1].copy()
CopyPrevious(stats, it) ==
  IF it # 0 THEN [stats EXCEPT ![it] = stats[it - 1]] ELSE stats

\* variant: a reward is counted as a loss as well
UpdateBanditStats_CountsTwice(stats, arm, rewarded) ==
  IF rewarded THEN [stats EXCEPT ![arm].wins = @ + 1, ![arm].losses = @ + 1]
  ELSE [stats EXCEPT ![arm].losses = @ + 1]

\* variant: the first arm is charged whatever was selected
UpdateBanditStats_FirstArm(stats, arm, rewarded) ==
  IF rewarded THEN [stats EXCEPT ![0].wins = @ + 1]
  ELSE [stats EXCEPT ![0].losses = @ + 1]

\* banditStats[selected_bandit]['wins'|'losses'] += 1
UpdateBanditStats(stats, arm, rewarded) ==
  IF rewarded THEN [stats EXCEPT ![arm].wins = @ + 1]
  ELSE [stats EXCEPT ![arm].losses = @ + 1]

\* overallStats[iteration]['wins'|'losses'] += 1
UpdateOverallStats(stats, it, rewarded) ==
  IF rewarded THEN [stats EXCEPT ![it].wins = @ + 1]
  ELSE [stats EXCEPT ![it].losses = @ + 1]

Init ==
  /\ pc = "start"
  /\ argv \in ((-1)..MaxArms) \X ((-1)..MaxTrials)
  /\ bandit_count = 0
  /\ trial_count = 0
  /\ bandits = <<>>
  /\ max_prob = 0
  /\ banditStats = <<>>
  /\ overallStats = <<>>
  /\ iteration = 0
  /\ current_draws = <<>>
  /\ selected_bandit = -1
  /\ called = "none"
  /\ number = 0
  /\ select_ret = Ret(FALSE)
  /\ regret_ret = Ret(0)

\* argument conversion, Bandits(bandit_count) and the two np.zeros
Setup ==
  /\ pc = "start"
  /\ bandit_count' = argv[1]
  /\ trial_count' = CoerceTrialCount(argv[2])
  /\ IF SizeInvalid(argv[1])
     THEN /\ pc' = "ValueError"
          /\ UNCHANGED <<bandits, max_prob, banditStats, overallStats>>
     ELSE \E probs \in [0..(argv[1] - 1) -> 0..(ProbLevels - 1)] :
            /\ bandits' = probs
            /\ max_prob' = amax(probs)
            /\ banditStats' = ZeroBanditStats(argv[1])
            /\ overallStats' = ZeroOverallStats(CoerceTrialCount(argv[2]))
            /\ pc' = "loop"
  /\ UNCHANGED <<argv, iteration, current_draws, selected_bandit>>
  /\ UNCHANGED apiVars

\* one pass through the body of the for loop
Round ==
  /\ pc = "loop"
  /\ iteration < trial_count
  /\ \E draws \in draw_bandit_distribution(banditStats), coin \in BOOLEAN :
       LET copied == CopyPrevious(overallStats, iteration)
           sel == argmax(draws)
           marked == [copied EXCEPT ![iteration].bandit = sel]
           rew == select(sel, coin)
           arm == Wrap(sel, bandit_count)
           newStats == UpdateBanditStats(banditStats, arm, rew.val)
           counted == UpdateOverallStats(marked, iteration, rew.val)
           reg == regret(sel)
       IN /\ selected_bandit' = sel
          /\ IF rew.exc # "none" \/ ~InBounds(sel, bandit_count)
             THEN /\ pc' = "IndexError"
                  /\ overallStats' = marked
                  /\ UNCHANGED <<banditStats, iteration>>
             ELSE IF reg.exc # "none"
             THEN /\ pc' = "IndexError"
                  /\ overallStats' = counted
                  /\ banditStats' = newStats
                  /\ UNCHANGED iteration
             ELSE /\ pc' = "loop"
                  /\ overallStats' = [counted EXCEPT ![iteration].regret = @ + reg.val]
                  /\ banditStats' = newStats
                  /\ iteration' = iteration + 1
  /\ UNCHANGED <<argv, bandit_count, trial_count, bandits, max_prob, current_draws>>
  /\ UNCHANGED apiVars

\* the loop is exhausted; the plots are drawn from overallStats
Plot ==
  /\ pc = "loop"
  /\ iteration >= trial_count
  /\ pc' = "done"
  /\ UNCHANGED scriptVars
  /\ UNCHANGED apiVars

Next == Setup \/ Round \/ Plot

Spec == Init /\ [][Next]_vars

----------------------------------------------------------------------------
(* direct use of a constructed Bandits object *)

Numbers == (-2)..(MaxArms + 1)

CallSelect ==
  /\ pc = "loop"
  /\ \E n \in Numbers, coin \in BOOLEAN :
       /\ called' = "select"
       /\ number' = n
       /\ select_ret' = select(n, coin)
  /\ UNCHANGED <<pc, regret_ret>>
  /\ UNCHANGED scriptVars

CallRegret ==
  /\ pc = "loop"
  /\ \E n \in Numbers :
       /\ called' = "regret"
       /\ number' = n
       /\ regret_ret' = regret(n)
  /\ UNCHANGED <<pc, select_ret>>
  /\ UNCHANGED scriptVars

NextApi == Setup \/ CallSelect \/ CallRegret

SpecApi == Init /\ [][NextApi]_vars

----------------------------------------------------------------------------
(* the sampling and selection step of the loop body *)

SelectStep ==
  /\ pc = "loop"
  /\ iteration < trial_count
  /\ \E draws \in draw_bandit_distribution(banditStats) :
       /\ current_draws' = draws
       /\ selected_bandit' = argmax(draws)
  /\ UNCHANGED <<pc, argv, bandit_count, trial_count, bandits, max_prob,
                 banditStats, overallStats, iteration>>
  /\ UNCHANGED apiVars

NextSelect == Setup \/ SelectStep

SpecSelect == Init /\ [][NextSelect]_vars

----------------------------------------------------------------------------
(* properties *)

Arms == 0..(bandit_count - 1)

Started == pc \in {"loop", "done"}

Rounds == 0..(iteration - 1)

\* C1: an arm count below 2 ends the script with ValueError before anything
\* else happens: no probabilities are drawn, no counter exists or changes,
\* and no round record is produced.
C1_SmallArmCountRejected ==
  (argv[1] < 2 /\ pc # "start") =>
    /\ pc = "ValueError"
    /\ bandits = <<>>
    /\ banditStats = <<>>
    /\ overallStats = <<>>
    /\ iteration = 0
    /\ current_draws = <<>>

C1_Witness == pc = "ValueError" /\ argv[1] = 1

\* C2: the loop runs exactly trial_count rounds, overallStats has one
\* record per round, and the record of round i has wins + losses = i + 1,
\* each round adding 1 to exactly one of the two totals of round i - 1.
C2_OneRecordPerRound ==
  Started =>
    /\ iteration <= trial_count
    /\ DOMAIN overallStats = 0..(trial_count - 1)
    /\ (pc = "done" => iteration = trial_count)
    /\ \A i \in Rounds :
         LET prevWins == IF i = 0 THEN 0 ELSE overallStats[i - 1].wins
             prevLosses == IF i = 0 THEN 0 ELSE overallStats[i - 1].losses
         IN /\ overallStats[i].wins + overallStats[i].losses = i + 1
            /\ \/ /\ overallStats[i].wins = prevWins + 1
                  /\ overallStats[i].losses = prevLosses
               \/ /\ overallStats[i].wins = prevWins
                  /\ overallStats[i].losses = prevLosses + 1

C2_Witness ==
  /\ pc = "done"
  /\ trial_count = 2
  /\ iteration = 2
  /\ overallStats[0].wins = 1
  /\ overallStats[1].wins = 1
  /\ overallStats[1].losses = 1

Selections(a) == Cardinality({i \in Rounds : overallStats[i].bandit = a})

\* C3: for every arm, wins + losses in banditStats equals the number of
\* completed rounds whose record names that arm; all arms start at (0,0).
C3_ArmCountsMatchSelections ==
  Started =>
    \A a \in Arms :
      /\ banditStats[a].wins + banditStats[a].losses = Selections(a)
      /\ banditStats[a].wins >= 0
      /\ banditStats[a].losses >= 0

C3_Witness ==
  /\ Started
  /\ iteration = 2
  /\ \E a, b \in Arms : Selections(a) = 2 /\ banditStats[a].wins = 1 /\ Selections(b) = 0

\* C4: regret returns max_prob for every index outside [0,K), the index K
\* included, without failing, and max_prob - bandits[number] inside [0,K).
C4_RegretHalfOpenRange ==
  called = "regret" =>
    /\ (number \notin Arms => regret_ret = Ret(max_prob))
    /\ (number \in Arms => regret_ret = Ret(max_prob - bandits[number]))

\* C5: select returns False, and raises nothing, for every index outside
\* [0,K); a reward is only ever returned for an index inside [0,K).
C5_SelectOutOfRangeIsFalse ==
  called = "select" =>
    /\ (number \notin Arms => select_ret = Ret(FALSE))
    /\ (select_ret.val => number \in Arms)

C5_Witness ==
  /\ called = "select"
  /\ number = bandit_count
  /\ select_ret = Ret(FALSE)

\* C6: a trial count argument below 1 is replaced by 1 and not rejected;
\* the run then performs exactly one round and has exactly one record, as
\* does a run with 2 arms and a trial count of 1.
C6_TrialCountCoerced ==
  /\ (argv[2] < 1 /\ argv[1] >= 2 /\ pc # "start") =>
       /\ Started
       /\ trial_count = 1
       /\ Cardinality(DOMAIN overallStats) = 1
       /\ iteration <= 1
  /\ (pc = "done" /\ (argv[2] < 1 \/ argv = <<2, 1>>)) =>
       /\ iteration = 1
       /\ Cardinality(DOMAIN overallStats) = 1

C6_Witness == pc = "done" /\ argv[2] = 0 /\ iteration = 1

BestProbability == CHOOSE m \in {bandits[a] : a \in Arms} : \A a \in Arms : bandits[a] <= m

RoundRegret(i) == BestProbability - bandits[overallStats[i].bandit]

RECURSIVE RegretUpTo(_)
RegretUpTo(i) == IF i < 0 THEN 0 ELSE RegretUpTo(i - 1) + RoundRegret(i)

\* C7: the regret field of round i is the sum over rounds j <= i of
\* (best probability - probability of the arm of round j); every term is
\* >= 0, so the field never decreases, and a best arm leaves it unchanged.
C7_CumulativeRegret ==
  Started =>
    \A i \in Rounds :
      LET prev == IF i = 0 THEN 0 ELSE overallStats[i - 1].regret
      IN /\ overallStats[i].regret = RegretUpTo(i)
         /\ RoundRegret(i) >= 0
         /\ overallStats[i].regret >= prev
         /\ (bandits[overallStats[i].bandit] = BestProbability
               => overallStats[i].regret = prev)

C7_Witness ==
  /\ Started
  /\ iteration = 2
  /\ overallStats[0].regret = 1
  /\ overallStats[1].regret = 1
  /\ bandits[overallStats[1].bandit] = max_prob

\* C8: the selected arm is an index of a maximum of the samples of the
\* round, and the lowest such index when several arms share the maximum.
C8_FirstMaximumSelected ==
  current_draws # <<>> =>
    /\ selected_bandit \in DOMAIN current_draws
    /\ \A j \in DOMAIN current_draws : current_draws[j] <= current_draws[selected_bandit]
    /\ \A j \in DOMAIN current_draws :
         j < selected_bandit => current_draws[j] < current_draws[selected_bandit]

C8_Witness ==
  /\ bandit_count = 3
  /\ current_draws = [j \in 0..2 |-> IF j = 0 THEN 1 ELSE 2]
  /\ selected_bandit = 1

\* C9: a round changes the counters of the selected arm only, adding
\* exactly 1 to wins if the trial paid out and to losses otherwise; no
\* other arm changes and no counter ever decreases or is reset.
C9_RoundChangesOneCounter ==
  [][pc = "loop" =>
       /\ DOMAIN banditStats' = DOMAIN banditStats
       /\ \A a \in DOMAIN banditStats :
            /\ banditStats'[a].wins >= banditStats[a].wins
            /\ banditStats'[a].losses >= banditStats[a].losses
       /\ (iteration' = iteration => banditStats' = banditStats)
       /\ (iteration' # iteration =>
             LET s == overallStats'[iteration].bandit
                 prevWins == IF iteration = 0 THEN 0 ELSE overallStats[iteration - 1].wins
                 paid == overallStats'[iteration].wins > prevWins
             IN /\ s \in DOMAIN banditStats
                /\ s = selected_bandit'
                /\ banditStats'[s] =
                     IF paid
                     THEN [wins |-> banditStats[s].wins + 1, losses |-> banditStats[s].losses]
                     ELSE [wins |-> banditStats[s].wins, losses |-> banditStats[s].losses + 1]
                /\ \A a \in DOMAIN banditStats : a # s => banditStats'[a] = banditStats[a])
  ]_vars

C9_Witness ==
  /\ Started
  /\ iteration >= 2
  /\ \E a, b \in Arms : a # b /\ banditStats[a].wins = 1 /\ banditStats[b].losses = 1

\* C10: every round selects an arm in [0,K), so neither the out-of-range
\* branches of select and regret nor an indexing failure on banditStats is
\* ever reached, and every record names a valid arm.
C10_SelectedArmInRange ==
  /\ pc # "IndexError"
  /\ Started =>
       /\ (iteration > 0 => selected_bandit \in Arms)
       /\ \A i \in Rounds : overallStats[i].bandit \in Arms

C10_Witness ==
  /\ pc = "done"
  /\ bandit_count = 3
  /\ iteration = 2
  /\ overallStats[0].bandit = 2
  /\ overallStats[1].bandit = 1
  /\ selected_bandit = 1

====
